---- MODULE Spec2Model ----
(***************************************************************************)
(* Model of the record manager of the glaucoma image tool:                 *)
(* GestorImagenes (models/gestor.py), Imagen (models/imagen.py) and the    *)
(* file helpers of utils.py, over an abstract file system.                 *)
(***************************************************************************)
EXTENDS Integers, Sequences, FiniteSets, TLC

VARIABLES lista_imagenes, csv, files, dirs, vista, last, nCalls, nFaults, exitosas

vars == <<lista_imagenes, csv, files, dirs, vista, last, nCalls, nFaults, exitosas>>

(* ------------------------------ bounds --------------------------------- *)
\* number of calls of the public operations in one run
MaxCalls == 2
\* number of injected I/O errors (copy, unlink, table write) in one run
MaxFaults == 1

(* --------------------------- config.py --------------------------------- *)
CARPETAS_DATASET == {"Train", "Test", "Validation"}

CABECERAS_CSV ==
  {"id_imagen", "ruta_archivo", "id_paciente", "fecha_adquisicion", "diagnostico",
   "conjunto_datos", "Fovea_X", "Fovea_Y", "Size_X", "Size_Y"}

(* ------------------------------ paths ---------------------------------- *)
\* A path is [root, dir, name]: root "ds" is config.RUTA_DATASET, dir the
\* folder below it and name the last component; root "ext" is a place outside
\* the dataset tree; root "cwd" is the working directory, which Path("") names.
Ds(dir, name) == [root |-> "ds", dir |-> dir, name |-> name]
Ext(name) == [root |-> "ext", dir |-> "", name |-> name]
Cwd == [root |-> "cwd", dir |-> "", name |-> ""]

\* the operator's files: a picture, a folder, and a path that names nothing
ExtA == Ext("a.png")
ExtDir == Ext("fotos")
ExtMissing == Ext("m.png")

\* the empty string, as a path string
NoRuta == [root |-> "", dir |-> "", name |-> ""]

\* Path(s) of a path string: Path("") is the working directory
PathOf(s) == IF s = NoRuta THEN Cwd ELSE s

\* config.RUTA_DATA and config.RUTA_METADATA_CSV
RUTA_DATA == [root |-> "cwd", dir |-> "metadata", name |-> ""]
RUTA_METADATA_CSV == [root |-> "cwd", dir |-> "metadata", name |-> "metadata.csv"]

\* Path.is_dir(): a directory of the file system
IsDir(p) == p \in dirs

\* Path.exists(): a regular file of the file system, or a directory
Exists(p, fs) == p \in fs \/ IsDir(p)

\* Path.relative_to(config.RUTA_DATASET) does not raise
InsideDataset(p) == p.root = "ds"

\* RUTA_DATASET / conjunto / origen.name
RutaDestino(conjunto, origen) == Ds(conjunto, origen.name)

(* ------------------------------ utils.py ------------------------------- *)
\* gestionar_rutas(RUTA_DATA, the folders of the dataset): mkdir with parents
\* and exist_ok on the base folder and on every folder of the list
gestionar_rutas(ds) ==
  ds \cup {RUTA_DATA, Ds("", "")} \cup {Ds(c, "") : c \in CARPETAS_DATASET}

\* shutil.copy succeeds: the source is a regular file, the folder of the
\* destination exists, the two are not the same file, and no I/O error
CopiaPosible(origen, destino, fs) ==
  /\ origen \in fs
  /\ destino.name # ""
  /\ IsDir(Ds(destino.dir, ""))
  /\ origen # destino

\* copiar_archivo: the error of a failed copy is printed and swallowed
copiar_archivo(origen, destino, fs, fault) ==
  IF CopiaPosible(origen, destino, fs) /\ fault # "copy"
    THEN fs \cup {destino}
    ELSE fs

\* a cleanup that forgets to ask whether the paths are inside the dataset root
verificar_duplicados_sin_raiz(origen, destino, fs, fault) ==
  IF origen # destino /\ origen \in fs /\ fault # "unlink"
    THEN fs \ {origen}
    ELSE fs

\* verificar_duplicados_dataset: unlink the origin when both paths are inside
\* the dataset root, differ, and the origin exists; an unlink error (a
\* directory, an I/O error) is printed and swallowed
verificar_duplicados_dataset(origen, destino, fs, fault) ==
  IF /\ InsideDataset(origen) /\ InsideDataset(destino)
     /\ origen # destino
     /\ Exists(origen, fs)
     /\ origen \in fs
     /\ fault # "unlink"
    THEN fs \ {origen}
    ELSE fs

\* a table write that opens the file for appending instead of truncating it
escribir_csv_append(old, datos, fault, k) ==
  CASE fault = "write_open" -> old
    [] fault = "write_partial" -> old \o SubSeq(datos, 1, IF k < Len(datos) THEN k ELSE Len(datos))
    [] OTHER -> old \o datos

\* escribir_csv: rewrite the whole table; an IOError on open leaves the file
\* as it was, one in the middle of the write leaves a table truncated after
\* at most k rows
escribir_csv(old, datos, fault, k) ==
  CASE fault = "write_open" -> old
    [] fault = "write_partial" -> SubSeq(datos, 1, IF k < Len(datos) THEN k ELSE Len(datos))
    [] OTHER -> datos

\* leer_csv: the rows of the table, none when the file does not exist
leer_csv(fs, tabla) == IF RUTA_METADATA_CSV \in fs THEN tabla ELSE <<>>

(* ----------------------------- imagen.py ------------------------------- *)
ImagenAttrs ==
  {"id_imagen", "ruta_archivo", "id_paciente", "fecha_adquisicion", "diagnostico",
   "conjunto_datos", "coordenadas_fovea", "dimensiones"}

\* the methods of the class, which hasattr finds on every instance as well
ImagenMetodos == {"validar_metadata", "a_diccionario"}

\* Imagen.__init__
Imagen(id, ruta, paciente, fecha, diag, conjunto, fovea, dims) ==
  [id_imagen |-> id, ruta_archivo |-> ruta, id_paciente |-> paciente,
   fecha_adquisicion |-> fecha, diagnostico |-> diag, conjunto_datos |-> conjunto,
   coordenadas_fovea |-> fovea, dimensiones |-> dims]

\* an acquisition date value: a date object, a string that is no date, or a
\* datetime object, which is a date with a time of day
Fecha(tipo, y, m, d) == [tipo |-> tipo, y |-> y, m |-> m, d |-> d]
FechaHora(y, m, d, h, mi, sg) ==
  [tipo |-> "datetime", y |-> y, m |-> m, d |-> d, h |-> h, mi |-> mi, sg |-> sg]
Hoy == Fecha("date", 2024, 1, 5)
NoFecha == Fecha("str", 2024, 1, 5)
Ahora == FechaHora(2024, 1, 5, 10, 30, 0)

\* isinstance(v, date): datetime is a subclass of date
IsDate(v) == v.tipo \in {"date", "datetime"}

\* None, the absent optional pair
None == <<>>

\* bool(s) of a string
Truthy(s) == s # ""

\* bool(v) of an optional pair
HasPair(v) == v # <<>>

Pad2(n) == IF n < 10 THEN "0" \o ToString(n) ELSE ToString(n)

\* date.isoformat(): YYYY-MM-DD; datetime.isoformat(): YYYY-MM-DDTHH:MM:SS
isoformat(f) ==
  LET dia == ToString(f.y) \o "-" \o Pad2(f.m) \o "-" \o Pad2(f.d)
  IN  IF f.tipo = "datetime"
        THEN dia \o "T" \o Pad2(f.h) \o ":" \o Pad2(f.mi) \o ":" \o Pad2(f.sg)
        ELSE dia

\* str(x) of a float kept in tenths: 105 is 10.5
StrFloat(x) == ToString(x \div 10) \o "." \o ToString(x % 10)

\* str(n) of an int
StrInt(n) == ToString(n)

\* a validation that does not look at the split
validar_metadata_sin_conjunto(img) ==
  /\ Truthy(img.id_imagen) /\ img.ruta_archivo # NoRuta /\ Truthy(img.id_paciente)
  /\ Truthy(img.diagnostico)
  /\ IsDate(img.fecha_adquisicion)

\* a validation whose list of required text fields misses the patient id
validar_metadata_sin_paciente(img) ==
  /\ Truthy(img.id_imagen) /\ img.ruta_archivo # NoRuta /\ Truthy(img.diagnostico)
  /\ IsDate(img.fecha_adquisicion)
  /\ img.conjunto_datos \in {"Train", "Test", "Validation"}

\* Imagen.validar_metadata
validar_metadata(img) ==
  /\ Truthy(img.id_imagen) /\ img.ruta_archivo # NoRuta /\ Truthy(img.id_paciente)
  /\ Truthy(img.diagnostico)
  /\ IsDate(img.fecha_adquisicion)
  /\ img.conjunto_datos \in {"Train", "Test", "Validation"}

\* img.a_diccionario() raises when the date is no date (AttributeError: no
\* isoformat) and when an instance attribute of that name hides the method
\* (TypeError: not callable)
PuedeSerializar(img) ==
  /\ IsDate(img.fecha_adquisicion)
  /\ "a_diccionario" \notin DOMAIN img

\* Imagen.a_diccionario
a_diccionario(img) ==
  [id_imagen |-> img.id_imagen,
   ruta_archivo |-> img.ruta_archivo,
   id_paciente |-> img.id_paciente,
   fecha_adquisicion |-> isoformat(img.fecha_adquisicion),
   diagnostico |-> img.diagnostico,
   conjunto_datos |-> img.conjunto_datos,
   Fovea_X |-> IF HasPair(img.coordenadas_fovea) THEN StrFloat(img.coordenadas_fovea[1]) ELSE "",
   Fovea_Y |-> IF HasPair(img.coordenadas_fovea) THEN StrFloat(img.coordenadas_fovea[2]) ELSE "",
   Size_X |-> IF HasPair(img.dimensiones) THEN StrInt(img.dimensiones[1]) ELSE "",
   Size_Y |-> IF HasPair(img.dimensiones) THEN StrInt(img.dimensiones[2]) ELSE ""]

(* ----------------------------- gestor.py ------------------------------- *)
\* the decimal digits, and the value of a string of digits
Digitos == <<"0", "1", "2", "3", "4", "5", "6", "7", "8", "9">>

ValorDigito(c) == (CHOOSE n \in 1..10 : Digitos[n] = c) - 1

EsNumero(s) ==
  /\ Len(s) > 0
  /\ \A i \in 1..Len(s) : \E n \in 1..10 : Digitos[n] = SubSeq(s, i, i)

RECURSIVE ValorNumero(_)
ValorNumero(s) ==
  IF Len(s) = 0 THEN 0
  ELSE ValorNumero(SubSeq(s, 1, Len(s) - 1)) * 10 + ValorDigito(SubSeq(s, Len(s), Len(s)))

\* datetime.strptime(s, "%Y-%m-%d").date(): four digits, "-", one or two digits
\* of a month, "-", one or two digits of a day, and nothing after them;
\* ok is FALSE where strptime raises ValueError
strptime(s) ==
  LET cortes == {c \in {1, 2} \X {1, 2} :
                   /\ Len(s) = 6 + c[1] + c[2]
                   /\ EsNumero(SubSeq(s, 1, 4))
                   /\ SubSeq(s, 5, 5) = "-"
                   /\ EsNumero(SubSeq(s, 6, 5 + c[1]))
                   /\ SubSeq(s, 6 + c[1], 6 + c[1]) = "-"
                   /\ EsNumero(SubSeq(s, 7 + c[1], 6 + c[1] + c[2]))
                   /\ ValorNumero(SubSeq(s, 6, 5 + c[1])) \in 1..12
                   /\ ValorNumero(SubSeq(s, 7 + c[1], 6 + c[1] + c[2])) \in 1..31}
  IN  IF cortes = {} THEN [ok |-> FALSE, fecha |-> NoFecha]
      ELSE LET c == CHOOSE c \in cortes : TRUE
           IN  [ok |-> TRUE,
                fecha |-> Fecha("date", ValorNumero(SubSeq(s, 1, 4)),
                                ValorNumero(SubSeq(s, 6, 5 + c[1])),
                                ValorNumero(SubSeq(s, 7 + c[1], 6 + c[1] + c[2])))]

\* the place of the decimal point of a string, 0 when it has none
Punto(s) ==
  IF \E i \in 1..Len(s) : SubSeq(s, i, i) = "."
    THEN CHOOSE i \in 1..Len(s) : SubSeq(s, i, i) = "."
    ELSE 0

\* float(s) does not raise: digits, or digits "." digits
PuedeFloat(s) ==
  \/ EsNumero(s)
  \/ /\ Punto(s) > 0
     /\ EsNumero(SubSeq(s, 1, Punto(s) - 1))
     /\ EsNumero(SubSeq(s, Punto(s) + 1, Len(s)))

\* float(s), kept in tenths
ValorFloat(s) ==
  IF Punto(s) = 0 THEN ValorNumero(s) * 10
  ELSE ValorNumero(SubSeq(s, 1, Punto(s) - 1)) * 10
         + ValorDigito(SubSeq(s, Punto(s) + 1, Punto(s) + 1))

\* int(s) does not raise: digits only
PuedeInt(s) == EsNumero(s)

ValorInt(s) == ValorNumero(s)

\* dict.get(key, default)
Get(d, key, default) == IF key \in DOMAIN d THEN d[key] ELSE default

\* uuid.uuid4().hex[:8] behind "img_": any value of the id space
IdsGenerables == {"img_1", "img_2"}

\* the outcome of a call: the three stores, what it returned ("True", "False",
\* "None", or "raised" when an exception left it) and whether the injected
\* I/O error of this call took place
Outcome(li, c, fs, res, fired) ==
  [lista |-> li, csv |-> c, files |-> fs, res |-> res, fired |-> fired]

\* the rows of a collection, as __guardar_metadata_en_csv builds them
Filas(li) == [i \in 1..Len(li) |-> a_diccionario(li[i])]

\* GestorImagenes.__guardar_metadata_en_csv: every record is turned into its
\* row first (this raises before the file is opened), then the table is written
guardar_metadata_en_csv(li, old, fault, k) ==
  IF \A i \in 1..Len(li) : PuedeSerializar(li[i])
    THEN [csv |-> escribir_csv(old, Filas(li), fault, k),
          raised |-> FALSE]
    ELSE [csv |-> old, raised |-> TRUE]

\* GestorImagenes.__buscar_imagen_por_id: the position of the first record
\* with this id, 0 when there is none
buscar_imagen_por_id(li, id) ==
  IF \E i \in 1..Len(li) : li[i].id_imagen = id
    THEN CHOOSE i \in 1..Len(li) :
           /\ li[i].id_imagen = id
           /\ \A j \in 1..(i - 1) : li[j].id_imagen # id
    ELSE 0

\* list.remove of the record at position i
Remove(li, i) == [j \in 1..(Len(li) - 1) |-> IF j < i THEN li[j] ELSE li[j + 1]]

\* the setattr loop: every key of the change-set that hasattr finds on the
\* object is set on the instance, the name of a method as well as a field
AplicarCambios(img, datos) ==
  [a \in DOMAIN img \cup (DOMAIN datos \cap ImagenMetodos) |->
     IF a \in DOMAIN datos THEN datos[a] ELSE img[a]]

\* a set-up that writes the header without asking whether the table exists
inicializar_entorno_sin_comprobar(ds, fs, tabla) ==
  [dirs |-> gestionar_rutas(ds),
   files |-> fs \cup {RUTA_METADATA_CSV},
   csv |-> escribir_csv(tabla, <<>>, "none", 0)]

\* GestorImagenes.inicializar_entorno: the folders are made, and a table with
\* only the header is written when the file of the table does not exist
inicializar_entorno(ds, fs, tabla) ==
  [dirs |-> gestionar_rutas(ds),
   files |-> fs \cup {RUTA_METADATA_CSV},
   csv |-> IF RUTA_METADATA_CSV \notin fs
             THEN escribir_csv(tabla, <<>>, "none", 0)
             ELSE tabla]

\* the conversions of one row do not raise
PuedeCargar(fila) ==
  /\ strptime(fila.fecha_adquisicion).ok
  /\ (fila.Fovea_X # "" /\ fila.Fovea_Y # "") =>
       (PuedeFloat(fila.Fovea_X) /\ PuedeFloat(fila.Fovea_Y))
  /\ (fila.Size_X # "" /\ fila.Size_Y # "") =>
       (PuedeInt(fila.Size_X) /\ PuedeInt(fila.Size_Y))

\* a conversion that takes a pair for present when one of its columns is filled
cargar_fila_parcial(fila) ==
  Imagen(fila.id_imagen, fila.ruta_archivo, fila.id_paciente,
         strptime(fila.fecha_adquisicion).fecha, fila.diagnostico, fila.conjunto_datos,
         IF fila.Fovea_X # "" \/ fila.Fovea_Y # ""
           THEN <<ValorFloat(fila.Fovea_X), ValorFloat(fila.Fovea_Y)>> ELSE None,
         IF fila.Size_X # "" \/ fila.Size_Y # ""
           THEN <<ValorInt(fila.Size_X), ValorInt(fila.Size_Y)>> ELSE None)

\* the Imagen that cargar_metadata_existente builds from one row
cargar_fila(fila) ==
  Imagen(fila.id_imagen, fila.ruta_archivo, fila.id_paciente,
         strptime(fila.fecha_adquisicion).fecha, fila.diagnostico, fila.conjunto_datos,
         IF fila.Fovea_X # "" /\ fila.Fovea_Y # ""
           THEN <<ValorFloat(fila.Fovea_X), ValorFloat(fila.Fovea_Y)>> ELSE None,
         IF fila.Size_X # "" /\ fila.Size_Y # ""
           THEN <<ValorInt(fila.Size_X), ValorInt(fila.Size_Y)>> ELSE None)

\* GestorImagenes.cargar_metadata_existente: one Imagen per row, appended in
\* the order of the rows; a row that does not convert raises (ValueError) and
\* ends the load
cargar_metadata_existente(li, datos_csv) ==
  IF \A i \in 1..Len(datos_csv) : PuedeCargar(datos_csv[i])
    THEN [lista |-> li \o [i \in 1..Len(datos_csv) |-> cargar_fila(datos_csv[i])],
          raised |-> FALSE]
    ELSE LET malo == CHOOSE i \in 1..Len(datos_csv) :
                       /\ ~PuedeCargar(datos_csv[i])
                       /\ \A j \in 1..(i - 1) : PuedeCargar(datos_csv[j])
         IN  [lista |-> li \o [i \in 1..(malo - 1) |-> cargar_fila(datos_csv[i])],
              raised |-> TRUE]

\* a registration that takes the copy back when validation refuses the record
registrar_con_rollback(li, c, fs, ruta_origen_str, metadata, nuevo_id, fault, k) ==
  LET ruta_origen == PathOf(ruta_origen_str)
      conjunto == Get(metadata, "conjunto_datos", "Train")
      ruta_destino == RutaDestino(conjunto, ruta_origen)
      fs1 == copiar_archivo(ruta_origen, ruta_destino, fs, fault)
      nueva_imagen ==
        Imagen(nuevo_id, ruta_destino, metadata["id_paciente"],
               metadata["fecha_adquisicion"], metadata["diagnostico"], conjunto,
               Get(metadata, "coordenadas_fovea", None), Get(metadata, "dimensiones", None))
      li1 == Append(li, nueva_imagen)
      g == guardar_metadata_en_csv(li1, c, fault, k)
      copyFired == fault = "copy" /\ CopiaPosible(ruta_origen, ruta_destino, fs)
  IN  IF ~Exists(ruta_origen, fs)
        THEN Outcome(li, c, fs, "False", FALSE)
        ELSE IF validar_metadata(nueva_imagen)
          THEN Outcome(li1, g.csv, fs1, IF g.raised THEN "raised" ELSE "True",
                       copyFired \/ (fault \in {"write_open", "write_partial"} /\ ~g.raised))
          ELSE Outcome(li, c, fs, "False", copyFired)

\* GestorImagenes.registrar_nueva_imagen
registrar_nueva_imagen(li, c, fs, ruta_origen_str, metadata, nuevo_id, fault, k) ==
  LET ruta_origen == PathOf(ruta_origen_str)
      conjunto == Get(metadata, "conjunto_datos", "Train")
      ruta_destino == RutaDestino(conjunto, ruta_origen)
      fs1 == copiar_archivo(ruta_origen, ruta_destino, fs, fault)
      nueva_imagen ==
        Imagen(nuevo_id, ruta_destino, metadata["id_paciente"],
               metadata["fecha_adquisicion"], metadata["diagnostico"], conjunto,
               Get(metadata, "coordenadas_fovea", None), Get(metadata, "dimensiones", None))
      li1 == Append(li, nueva_imagen)
      g == guardar_metadata_en_csv(li1, c, fault, k)
      copyFired == fault = "copy" /\ CopiaPosible(ruta_origen, ruta_destino, fs)
  IN  IF ~Exists(ruta_origen, fs)
        THEN Outcome(li, c, fs, "False", FALSE)
        ELSE IF validar_metadata(nueva_imagen)
          THEN Outcome(li1, g.csv, fs1, IF g.raised THEN "raised" ELSE "True",
                       copyFired \/ (fault \in {"write_open", "write_partial"} /\ ~g.raised))
          ELSE Outcome(li, c, fs1, "False", copyFired)

\* an update that takes the folder Train for the destination whatever the split
\* of the change-set
modificar_sin_conjunto(li, c, fs, id_imagen, nuevos_datos, fault, k) ==
  LET ruta_origen == PathOf(Get(nuevos_datos, "ruta_archivo", NoRuta))
      ruta_destino == RutaDestino("Train", ruta_origen)
      mover == ruta_origen # ruta_destino
      fs1 == IF mover THEN copiar_archivo(ruta_origen, ruta_destino, fs, fault) ELSE fs
      fs2 == IF mover THEN verificar_duplicados_dataset(ruta_origen, ruta_destino, fs1, fault)
                      ELSE fs1
      datos1 == IF mover THEN [a \in DOMAIN nuevos_datos \cup {"ruta_archivo"} |->
                                 IF a = "ruta_archivo" THEN ruta_destino ELSE nuevos_datos[a]]
                         ELSE nuevos_datos
      i == buscar_imagen_por_id(li, id_imagen)
      anterior == PathOf(li[i].ruta_archivo)
      limpiar == Exists(anterior, fs2) /\ anterior # ruta_destino
      fs3 == IF limpiar THEN verificar_duplicados_dataset(anterior, ruta_destino, fs2, fault)
                        ELSE fs2
      li1 == [li EXCEPT ![i] = AplicarCambios(li[i], datos1)]
      g == guardar_metadata_en_csv(li1, c, fault, k)
      copyFired == fault = "copy" /\ mover /\ CopiaPosible(ruta_origen, ruta_destino, fs)
      unlink1Fired ==
        /\ fault = "unlink" /\ mover
        /\ verificar_duplicados_dataset(ruta_origen, ruta_destino, fs1, "none") # fs1
      unlink2Fired ==
        /\ fault = "unlink" /\ limpiar
        /\ verificar_duplicados_dataset(anterior, ruta_destino, fs2, "none") # fs2
  IN  IF ~Exists(ruta_origen, fs)
        THEN Outcome(li, c, fs, "False", FALSE)
        ELSE IF i = 0
          THEN Outcome(li, c, fs2, "None", copyFired \/ unlink1Fired)
          ELSE Outcome(li1, g.csv, fs3, IF g.raised THEN "raised" ELSE "True",
                       \/ copyFired \/ unlink1Fired \/ unlink2Fired
                       \/ (fault \in {"write_open", "write_partial"} /\ ~g.raised))

\* GestorImagenes.modificar_metadata_imagen
modificar_metadata_imagen(li, c, fs, id_imagen, nuevos_datos, fault, k) ==
  LET ruta_origen == PathOf(Get(nuevos_datos, "ruta_archivo", NoRuta))
      ruta_destino == RutaDestino(Get(nuevos_datos, "conjunto_datos", "Train"), ruta_origen)
      mover == ruta_origen # ruta_destino
      fs1 == IF mover THEN copiar_archivo(ruta_origen, ruta_destino, fs, fault) ELSE fs
      fs2 == IF mover THEN verificar_duplicados_dataset(ruta_origen, ruta_destino, fs1, fault)
                      ELSE fs1
      datos1 == IF mover THEN [a \in DOMAIN nuevos_datos \cup {"ruta_archivo"} |->
                                 IF a = "ruta_archivo" THEN ruta_destino ELSE nuevos_datos[a]]
                         ELSE nuevos_datos
      i == buscar_imagen_por_id(li, id_imagen)
      anterior == PathOf(li[i].ruta_archivo)
      limpiar == Exists(anterior, fs2) /\ anterior # ruta_destino
      fs3 == IF limpiar THEN verificar_duplicados_dataset(anterior, ruta_destino, fs2, fault)
                        ELSE fs2
      li1 == [li EXCEPT ![i] = AplicarCambios(li[i], datos1)]
      g == guardar_metadata_en_csv(li1, c, fault, k)
      copyFired == fault = "copy" /\ mover /\ CopiaPosible(ruta_origen, ruta_destino, fs)
      unlink1Fired ==
        /\ fault = "unlink" /\ mover
        /\ verificar_duplicados_dataset(ruta_origen, ruta_destino, fs1, "none") # fs1
      unlink2Fired ==
        /\ fault = "unlink" /\ limpiar
        /\ verificar_duplicados_dataset(anterior, ruta_destino, fs2, "none") # fs2
  IN  IF ~Exists(ruta_origen, fs)
        THEN Outcome(li, c, fs, "False", FALSE)
        ELSE IF i = 0
          THEN Outcome(li, c, fs2, "None", copyFired \/ unlink1Fired)
          ELSE Outcome(li1, g.csv, fs3, IF g.raised THEN "raised" ELSE "True",
                       \/ copyFired \/ unlink1Fired \/ unlink2Fired
                       \/ (fault \in {"write_open", "write_partial"} /\ ~g.raised))

\* a removal that rewrites the table before it looks at what the search found
eliminar_sin_comprobar(li, c, fs, id_imagen, fault, k) ==
  LET i == buscar_imagen_por_id(li, id_imagen)
      ruta == PathOf(li[i].ruta_archivo)
      fs1 == IF ruta \in fs /\ fault # "unlink" THEN fs \ {ruta} ELSE fs
      li1 == Remove(li, i)
      g == guardar_metadata_en_csv(IF i = 0 THEN li ELSE li1, c, fault, k)
  IN  IF i = 0
        THEN Outcome(li, g.csv, fs, "None", FALSE)
        ELSE Outcome(li1, g.csv, fs1, IF g.raised THEN "raised" ELSE "None",
                     \/ (fault = "unlink" /\ ruta \in fs)
                     \/ (fault \in {"write_open", "write_partial"} /\ ~g.raised))

\* GestorImagenes.eliminar_imagen_por_id
eliminar_imagen_por_id(li, c, fs, id_imagen, fault, k) ==
  LET i == buscar_imagen_por_id(li, id_imagen)
      ruta == PathOf(li[i].ruta_archivo)
      fs1 == IF ruta \in fs /\ fault # "unlink" THEN fs \ {ruta} ELSE fs
      li1 == Remove(li, i)
      g == guardar_metadata_en_csv(li1, c, fault, k)
  IN  IF i = 0
        THEN Outcome(li, c, fs, "None", FALSE)
        ELSE Outcome(li1, g.csv, fs1, IF g.raised THEN "raised" ELSE "None",
                     \/ (fault = "unlink" /\ ruta \in fs)
                     \/ (fault \in {"write_open", "write_partial"} /\ ~g.raised))

\* a listing that hands out the list of the manager itself
obtener_sin_copia(li) == [ref |-> "interna", items |-> li]

\* GestorImagenes.obtener_imagenes_como_objetos: a new list object ("copia")
\* with the records of the collection in their order
obtener_imagenes_como_objetos(li) == [ref |-> "copia", items |-> li]

(* ------------------------ inputs of the calls -------------------------- *)
\* metadata of the form: the three required keys
Meta(paciente, diag, fecha) ==
  [id_paciente |-> paciente, diagnostico |-> diag, fecha_adquisicion |-> fecha]

\* the empty dictionary
Vacio == [a \in {} |-> ""]

\* the dataset split of a call: left out, a folder of the dataset, or no folder
ConjuntoOpts == {Vacio} \cup {[conjunto_datos |-> s] : s \in {"Train", "Test", "Bogus"}}

\* fovea (10.5, 20.0) and dimensions (512, 512)
Opcionales == [coordenadas_fovea |-> <<105, 200>>, dimensiones |-> <<512, 512>>]

\* complete metadata: with and without a split, with the optional pairs, with
\* a datetime for its date
MetadatasValidas ==
  {Meta("P1", "D1", Hoy),
   Meta("P1", "D1", Ahora),
   Meta("P1", "D1", Hoy) @@ [conjunto_datos |-> "Train"] @@ Opcionales,
   Meta("P1", "D1", Hoy) @@ [conjunto_datos |-> "Test"],
   Meta("P1", "D1", Hoy) @@ [conjunto_datos |-> "Validation"]}

\* metadata that validar_metadata refuses: an empty required field, a date
\* that is none, a split that is none
MetadatasInvalidas ==
  {Meta("", "D1", Hoy),
   Meta("", "D1", Hoy) @@ [conjunto_datos |-> "Bogus"],
   Meta("P1", "", Hoy) @@ [conjunto_datos |-> "Test"],
   Meta("P1", "D1", NoFecha) @@ [conjunto_datos |-> "Train"],
   Meta("P1", "D1", Hoy) @@ [conjunto_datos |-> "Bogus"]}

Metadatas == MetadatasValidas \cup MetadatasInvalidas

\* source paths handed to registrar_nueva_imagen
RutasOrigen == {ExtA, ExtDir, ExtMissing}

\* the calls of registrar_nueva_imagen: the picture with every metadata, the
\* folder and the missing path with one complete and one refused metadata
Registros ==
  {<<ExtA, m>> : m \in Metadatas}
    \cup {<<o, m>> : o \in {ExtDir, ExtMissing},
                     m \in {Meta("P1", "D1", Hoy), Meta("", "D1", Hoy)}}

\* ids handed to modificar_metadata_imagen and eliminar_imagen_por_id
IdsArg == IdsGenerables

\* the file of a change-set: left out, the operator's files, the files that
\* the records name, the files of the dataset tree
RutaOpts(li) ==
  {Vacio} \cup {[ruta_archivo |-> p] :
                  p \in {ExtA, ExtMissing} \cup {li[i].ruta_archivo : i \in 1..Len(li)}
                         \cup {f \in files : InsideDataset(f)}}

\* one more key of a change-set: a field of the record, a key it has not, or
\* the name of one of its methods
OtrosCambios ==
  {[id_imagen |-> v] : v \in {"", "img_1", "img_2"}}
    \cup {[id_paciente |-> v] : v \in {"", "P2"}}
    \cup {[diagnostico |-> ""], [fecha_adquisicion |-> NoFecha],
          [coordenadas_fovea |-> None], [dimensiones |-> <<640, 480>>],
          [nota |-> "x"], [validar_metadata |-> "x"], [a_diccionario |-> "x"]}

\* change-sets handed to modificar_metadata_imagen
Cambios(li) ==
  {r @@ cj : r \in RutaOpts(li), cj \in ConjuntoOpts}
    \cup {[ruta_archivo |-> ExtA] @@ o : o \in OtrosCambios}

\* injected I/O errors: of the copy, of every unlink, of the table write
Faults == {"copy", "unlink", "write_open", "write_partial"}

(* --------------------------- state machine ----------------------------- *)
Llamada(op, id, origen, datos, fault, r) ==
  [op |-> op, id |-> id, origen |-> origen, datos |-> datos, fault |-> fault,
   res |-> r.res,
   pre |-> [lista |-> lista_imagenes, csv |-> csv, files |-> files, dirs |-> dirs]]

\* a record that an earlier session registered from the operator's picture
ImagenPrevia == Imagen("img_1", Ds("Train", "a.png"), "P1", Hoy, "D1", "Train", None, None)

\* what the working directory holds when the manager is constructed: the
\* operator's picture and folder and nothing else, or also the folders, the
\* table and the file that an earlier session left
Inicios ==
  {[dirs |-> {Cwd, ExtDir}, files |-> {ExtA}, csv |-> <<>>],
   [dirs |-> gestionar_rutas({Cwd, ExtDir}),
    files |-> {ExtA, Ds("Train", "a.png"), RUTA_METADATA_CSV},
    csv |-> Filas(<<ImagenPrevia>>)]}

\* no list has been handed out
SinVista == [ref |-> "ninguna", items |-> <<>>]

\* GestorImagenes.__init__ on a working directory: the empty collection, then
\* inicializar_entorno, then cargar_metadata_existente
Construir(ds, fs, tabla) ==
  LET e == inicializar_entorno(ds, fs, tabla)
      c == cargar_metadata_existente(<<>>, leer_csv(e.files, e.csv))
  IN  [lista |-> c.lista, csv |-> e.csv, files |-> e.files, dirs |-> e.dirs,
       res |-> IF c.raised THEN "raised" ELSE "None", fired |-> FALSE]

Init ==
  \E ini \in Inicios :
    LET g == Construir(ini.dirs, ini.files, ini.csv)
    IN  /\ lista_imagenes = g.lista
        /\ csv = g.csv
        /\ files = g.files
        /\ dirs = g.dirs
        /\ vista = SinVista
        /\ last = [op |-> "init", id |-> "", origen |-> NoRuta, datos |-> Vacio,
                   fault |-> "none", res |-> g.res,
                   pre |-> [lista |-> <<>>, csv |-> ini.csv, files |-> ini.files,
                            dirs |-> ini.dirs]]
        /\ nCalls = 0
        /\ nFaults = 0
        /\ exitosas = TRUE

\* the last call changed none of the three stores: the program is in the state
\* it was in before that call, and the calls that may follow it are those that
\* may follow the shorter run, so a run is explored up to such a call
SinEfecto ==
  /\ last.op \notin {"init", "listar"}
  /\ lista_imagenes = last.pre.lista /\ csv = last.pre.csv /\ files = last.pre.files

\* the process has no manager: its construction raised
SinGestor == last.op \in {"init", "reiniciar"} /\ last.res = "raised"

\* one more call may be made
Continuar == nCalls < MaxCalls /\ ~SinEfecto /\ ~SinGestor

\* the I/O errors that may still be injected, and the rows a truncated write
\* may leave
FaultsDisponibles == IF nFaults < MaxFaults THEN Faults \cup {"none"} ELSE {"none"}
Cortes(fault) == IF fault = "write_partial" THEN 0..Len(lista_imagenes) ELSE {0}

\* the call with outcome r took place, under the I/O error fault if any; bien
\* tells that it named an existing file and a folder of the dataset, where it
\* names them, and reported success, and exitosas that every call so far did
\* and met no I/O error
Paso(r, fault, k, bien) ==
  /\ fault # "none" => r.fired
  /\ fault = "write_partial" => k < Len(r.lista)
  /\ lista_imagenes' = r.lista
  /\ csv' = r.csv
  /\ files' = r.files
  /\ UNCHANGED <<dirs, vista>>
  /\ nCalls' = nCalls + 1
  /\ nFaults' = IF fault = "none" THEN nFaults ELSE nFaults + 1
  /\ exitosas' = (exitosas /\ bien /\ fault = "none")

Registrar ==
  /\ Continuar
  /\ \E reg \in Registros, nuevo_id \in IdsGenerables, fault \in FaultsDisponibles :
       \E k \in Cortes(fault) :
         LET r == registrar_nueva_imagen(lista_imagenes, csv, files, reg[1], reg[2],
                                         nuevo_id, fault, k)
         IN  /\ Paso(r, fault, k, r.res = "True" /\ PathOf(reg[1]) \in files)
             /\ last' = Llamada("registrar",
                                IF Exists(PathOf(reg[1]), files) THEN nuevo_id ELSE "",
                                reg[1], reg[2], fault, r)

Modificar ==
  /\ Continuar
  /\ \E id \in IdsArg, nuevos_datos \in Cambios(lista_imagenes),
        fault \in FaultsDisponibles :
       \E k \in Cortes(fault) :
         LET r == modificar_metadata_imagen(lista_imagenes, csv, files, id,
                                            nuevos_datos, fault, k)
         IN  /\ Paso(r, fault, k,
                      /\ r.res = "True"
                      /\ PathOf(Get(nuevos_datos, "ruta_archivo", NoRuta)) \in files
                      /\ IsDir(Ds(Get(nuevos_datos, "conjunto_datos", "Train"), "")))
             /\ last' = Llamada("modificar", id, NoRuta, nuevos_datos, fault, r)

Eliminar ==
  /\ Continuar
  /\ \E id \in IdsArg, fault \in FaultsDisponibles :
       \E k \in Cortes(fault) :
         LET r == eliminar_imagen_por_id(lista_imagenes, csv, files, id, fault, k)
         IN  /\ Paso(r, fault, k,
                      r.res = "None" /\ buscar_imagen_por_id(lista_imagenes, id) # 0)
             /\ last' = Llamada("eliminar", id, NoRuta, Vacio, fault, r)

\* the interface asks for the list of the records
Listar ==
  /\ Continuar
  /\ vista' = obtener_imagenes_como_objetos(lista_imagenes)
  /\ last' = Llamada("listar", "", NoRuta, Vacio, "none", [res |-> "None"])
  /\ nCalls' = nCalls + 1
  /\ UNCHANGED <<lista_imagenes, csv, files, dirs, nFaults, exitosas>>

\* the holder of a list that was handed out removes its first record or adds
\* one to it; the list of the manager changes with it when it is the same
\* list object
MutarVista ==
  /\ Continuar
  /\ vista.ref # "ninguna"
  /\ \E nueva \in (IF vista.items # <<>> THEN {Tail(vista.items)} ELSE {})
                      \cup {Append(vista.items, ImagenPrevia)} :
       /\ vista' = [vista EXCEPT !.items = nueva]
       /\ lista_imagenes' = IF vista.ref = "interna" THEN nueva ELSE lista_imagenes
  /\ last' = Llamada("mutar", "", NoRuta, Vacio, "none", [res |-> "None"])
  /\ nCalls' = nCalls + 1
  /\ UNCHANGED <<csv, files, dirs, nFaults, exitosas>>

\* the public method inicializar_entorno is called on the running manager
InicializarEntorno ==
  /\ Continuar
  /\ LET e == inicializar_entorno(dirs, files, csv)
     IN  /\ csv' = e.csv
         /\ files' = e.files
         /\ dirs' = e.dirs
  /\ last' = Llamada("inicializar", "", NoRuta, Vacio, "none", [res |-> "None"])
  /\ nCalls' = nCalls + 1
  /\ UNCHANGED <<lista_imagenes, vista, nFaults, exitosas>>

\* the program is closed and started again: a new manager is constructed on
\* what the working directory holds
Reiniciar ==
  /\ Continuar
  /\ LET g == Construir(dirs, files, csv)
     IN  /\ lista_imagenes' = g.lista
         /\ csv' = g.csv
         /\ files' = g.files
         /\ dirs' = g.dirs
         /\ last' = Llamada("reiniciar", "", NoRuta, Vacio, "none", g)
  /\ vista' = SinVista
  /\ nCalls' = nCalls + 1
  /\ UNCHANGED <<nFaults, exitosas>>

Next ==
  \/ Registrar \/ Modificar \/ Eliminar
  \/ Listar \/ MutarVista \/ InicializarEntorno \/ Reiniciar

Spec == Init /\ [][Next]_vars

(* ------------------- the record type on its own ------------------------ *)
\* records of every kind: each text field filled or empty, the date a date, a
\* datetime or a string, the split a folder of the dataset or not, each
\* optional pair present or absent
Imagenes ==
  {Imagen(id, ruta, paciente, fecha, diag, conjunto, fovea, dims) :
     id \in {"img_1", ""}, ruta \in {Ds("Train", "a.png"), NoRuta},
     paciente \in {"P1", ""},
     fecha \in {Hoy, Fecha("date", 2023, 12, 31), Ahora, NoFecha},
     diag \in {"D1", ""}, conjunto \in {"Train", "Validation", "Bogus"},
     fovea \in {None, <<105, 200>>, <<0, 0>>}, dims \in {None, <<512, 512>>}}

\* rows of a table edited by hand: each component of each optional pair filled
\* or empty, a size that is an integer or not
FilasEditadas ==
  {[a_diccionario(ImagenPrevia) EXCEPT !.Fovea_X = fx, !.Fovea_Y = fy,
                                       !.Size_X = sx, !.Size_Y = sy] :
     fx \in {"", "10.5"}, fy \in {"", "20.0"},
     sx \in {"", "512", "512.0"}, sy \in {"", "512"}}

\* one record, not yet persisted, or no record and a table of one row
InitImagen ==
  \E ini \in {[lista |-> <<img>>, csv |-> <<>>, op |-> "init"] : img \in Imagenes}
               \cup {[lista |-> <<>>, csv |-> <<fila>>, op |-> "tabla"] :
                       fila \in FilasEditadas} :
    /\ lista_imagenes = ini.lista
    /\ csv = ini.csv
    /\ files = {RUTA_METADATA_CSV}
    /\ dirs = gestionar_rutas({Cwd})
    /\ vista = SinVista
    /\ last = [op |-> ini.op, id |-> "", origen |-> NoRuta, datos |-> Vacio,
               fault |-> "none", res |-> "None",
               pre |-> [lista |-> ini.lista, csv |-> ini.csv, files |-> {RUTA_METADATA_CSV},
                        dirs |-> gestionar_rutas({Cwd})]]
    /\ nCalls = 0
    /\ nFaults = 0
    /\ exitosas = TRUE

\* validar_metadata is called on the record
Validar ==
  /\ last.op = "init"
  /\ last' = Llamada("validar", "", NoRuta, Vacio, "none",
                     [res |-> IF validar_metadata(lista_imagenes[1]) THEN "True"
                                                                      ELSE "False"])
  /\ nCalls' = nCalls + 1
  /\ UNCHANGED <<lista_imagenes, csv, files, dirs, vista, nFaults, exitosas>>

\* the record is written to the table
Persistir ==
  /\ last.op = "init"
  /\ LET g == guardar_metadata_en_csv(lista_imagenes, csv, "none", 0)
     IN  /\ csv' = g.csv
         /\ last' = Llamada("persistir", "", NoRuta, Vacio, "none",
                            [res |-> IF g.raised THEN "raised" ELSE "None"])
  /\ nCalls' = nCalls + 1
  /\ UNCHANGED <<lista_imagenes, files, dirs, vista, nFaults, exitosas>>

\* the table is loaded into an empty collection
Cargar ==
  /\ \/ last.op = "persistir" /\ last.res # "raised"
     \/ last.op = "tabla"
  /\ LET c == cargar_metadata_existente(<<>>, leer_csv(files, csv))
     IN  /\ lista_imagenes' = c.lista
         /\ last' = Llamada("cargar", "", NoRuta, Vacio, "none",
                            [res |-> IF c.raised THEN "raised" ELSE "None"])
  /\ nCalls' = nCalls + 1
  /\ UNCHANGED <<csv, files, dirs, vista, nFaults, exitosas>>

NextImagen == Validar \/ Persistir \/ Cargar

SpecImagen == InitImagen /\ [][NextImagen]_vars

(* ------------- successful calls on a store that starts empty ----------- *)
\* the number of calls of a run of successful calls
MaxExitosas == 3

\* the manager is constructed on a working directory without table or dataset
InitVacio ==
  /\ Init
  /\ last.pre.csv = <<>>
  /\ \A f \in last.pre.files : f.root # "ds"

\* registrar_nueva_imagen on an existing file, without I/O error and with an id
\* that no record has, returns True
RegistrarExitosa ==
  /\ nCalls < MaxExitosas
  /\ \E reg \in Registros, nuevo_id \in IdsGenerables :
       LET r == registrar_nueva_imagen(lista_imagenes, csv, files, reg[1], reg[2],
                                       nuevo_id, "none", 0)
       IN  /\ r.res = "True"
           /\ PathOf(reg[1]) \in files
           /\ buscar_imagen_por_id(lista_imagenes, nuevo_id) = 0
           /\ Paso(r, "none", 0, TRUE)
           /\ last' = Llamada("registrar", nuevo_id, reg[1], reg[2], "none", r)

\* modificar_metadata_imagen on an existing file and a folder of the dataset,
\* without I/O error, returns True
ModificarExitosa ==
  /\ nCalls < MaxExitosas
  /\ \E id \in IdsArg, nuevos_datos \in Cambios(lista_imagenes) :
       LET r == modificar_metadata_imagen(lista_imagenes, csv, files, id,
                                          nuevos_datos, "none", 0)
       IN  /\ r.res = "True"
           /\ PathOf(Get(nuevos_datos, "ruta_archivo", NoRuta)) \in files
           /\ IsDir(Ds(Get(nuevos_datos, "conjunto_datos", "Train"), ""))
           /\ Paso(r, "none", 0, TRUE)
           /\ last' = Llamada("modificar", id, NoRuta, nuevos_datos, "none", r)

\* eliminar_imagen_por_id on the id of a record, without I/O error, completes
EliminarExitosa ==
  /\ nCalls < MaxExitosas
  /\ \E id \in IdsArg :
       LET r == eliminar_imagen_por_id(lista_imagenes, csv, files, id, "none", 0)
       IN  /\ r.res = "None"
           /\ buscar_imagen_por_id(lista_imagenes, id) # 0
           /\ Paso(r, "none", 0, TRUE)
           /\ last' = Llamada("eliminar", id, NoRuta, Vacio, "none", r)

NextExitosas == RegistrarExitosa \/ ModificarExitosa \/ EliminarExitosa

SpecExitosas == InitVacio /\ [][NextExitosas]_vars

(* ------------------------ reading the last call ------------------------ *)
EsLlamada == last.op \in {"registrar", "modificar", "eliminar"}

\* the position, before the call, of the record the call names
Encontrada == buscar_imagen_por_id(last.pre.lista, last.id)

\* the call reported success: True from registrar and modificar, a completed
\* removal from eliminar
Exito ==
  \/ last.op \in {"registrar", "modificar"} /\ last.res = "True"
  \/ last.op = "eliminar" /\ last.res = "None" /\ Encontrada # 0

FalloEscritura == last.fault \in {"write_open", "write_partial"}

\* source and destination of the last modificar call
OrigenMod == PathOf(Get(last.datos, "ruta_archivo", NoRuta))
DestinoMod == RutaDestino(Get(last.datos, "conjunto_datos", "Train"), OrigenMod)

(* ------------------------------- claims -------------------------------- *)
\* C1: after every registrar, modificar or eliminar call that reports success
\* and whose table write did not fail, the table holds exactly the rows of the
\* records of the collection, in the same order
C1_TablaReconciliada ==
  (EsLlamada /\ Exito /\ ~FalloEscritura) => csv = Filas(lista_imagenes)

\* C1 witness: a successful update of a collection of two whose table had been
\* left behind by an earlier failed write
C1_Witness ==
  /\ last.op = "modificar" /\ last.res = "True" /\ last.fault = "none"
  /\ Len(lista_imagenes) = 2
  /\ last.pre.csv # Filas(last.pre.lista)
  /\ csv = Filas(lista_imagenes)

\* the last call was a modificar call that names a record whose file is in
\* the dataset tree, with a file as its source and a folder of the dataset as
\* its new split, and no unlink was refused
Reubicacion ==
  /\ last.op = "modificar" /\ Encontrada # 0
  /\ last.pre.lista[Encontrada].ruta_archivo \in last.pre.files
  /\ InsideDataset(last.pre.lista[Encontrada].ruta_archivo)
  /\ OrigenMod \in last.pre.files
  /\ "conjunto_datos" \in DOMAIN last.datos
  /\ last.datos.conjunto_datos \in CARPETAS_DATASET
  /\ last.fault # "unlink"

\* the old paths of a relocation: the source of the change-set and the path
\* the record had, when the destination is another path
Anteriores ==
  {p \in {OrigenMod, last.pre.lista[Encontrada].ruta_archivo} : p # DestinoMod}

\* C2 (as claimed): a relocation leaves the new path present and every old path
\* inside the dataset root absent, and every old path outside it untouched
C2_Original ==
  Reubicacion =>
    \A p \in Anteriores :
      IF InsideDataset(p) THEN p \notin files /\ DestinoMod \in files
                          ELSE p \in files

\* the record the last eliminar call removed
Eliminada == last.pre.lista[Encontrada]

\* C3 (as claimed): after eliminar on an id of the collection no record and no
\* row has that id, and the file of the record is absent unless the unlink
\* failed; stated for the calls whose table write met no I/O error
C3_Original ==
  (last.op = "eliminar" /\ Encontrada # 0 /\ ~FalloEscritura) =>
    /\ \A i \in 1..Len(lista_imagenes) : lista_imagenes[i].id_imagen # last.id
    /\ \A i \in 1..Len(csv) : csv[i].id_imagen # last.id
    /\ last.fault # "unlink" => ~Exists(PathOf(Eliminada.ruta_archivo), files)

\* the last call was a registrar call with an empty patient or a split that is
\* no folder of the dataset
RegistroInvalido ==
  /\ last.op = "registrar"
  /\ \/ last.datos.id_paciente = ""
     \/ Get(last.datos, "conjunto_datos", "Train") \notin {"Train", "Test", "Validation"}

\* C4: a registrar call with an empty patient id or a split outside Train,
\* Test, Validation returns False and leaves collection and table as they were
C4_RegistroInvalidoSinEfecto ==
  RegistroInvalido =>
    /\ last.res = "False"
    /\ lista_imagenes = last.pre.lista
    /\ csv = last.pre.csv

\* C4 witness: such a call on a collection that holds a record, with an existing
\* source, so that the copy was made before validation refused the record
C4_Witness ==
  /\ RegistroInvalido /\ last.origen = ExtA /\ last.datos.id_paciente = ""
  /\ last.pre.lista # <<>>
  /\ last.res = "False" /\ lista_imagenes = last.pre.lista /\ csv = last.pre.csv

\* C5 (as claimed): a registrar call that returns True has appended one record
\* with the generated id, the requested split (Train when left out) and the
\* path <dataset>/<split>/<source name>, and a file is at that path
C5_Original ==
  (last.op = "registrar" /\ last.res = "True") =>
    /\ Len(lista_imagenes) = Len(last.pre.lista) + 1
    /\ SubSeq(lista_imagenes, 1, Len(last.pre.lista)) = last.pre.lista
    /\ LET nueva == lista_imagenes[Len(lista_imagenes)]
           conjunto == Get(last.datos, "conjunto_datos", "Train")
       IN  /\ nueva.id_imagen = last.id
           /\ nueva.conjunto_datos = conjunto
           /\ nueva.ruta_archivo = Ds(conjunto, PathOf(last.origen).name)
           /\ nueva.ruta_archivo \in files

\* C6: no modificar call deletes a file outside the dataset root
C6_FueraDelDatasetIntacto ==
  last.op = "modificar" =>
    \A p \in last.pre.files : ~InsideDataset(p) => p \in files

\* C6 witness: an update whose source is the operator's own file and which
\* removed the previous file of the record from the dataset tree
C6_Witness ==
  /\ last.op = "modificar" /\ last.res = "True"
  /\ OrigenMod = ExtA /\ ExtA \in files
  /\ \E p \in last.pre.files : InsideDataset(p) /\ p \notin files

\* C7 (as claimed): no registrar or modificar call changes the id of a record
\* that stays in the collection
C7_Original ==
  last.op \in {"registrar", "modificar"} =>
    \A i \in 1..Len(last.pre.lista) :
      lista_imagenes[i].id_imagen = last.pre.lista[i].id_imagen

\* C8 (as claimed): the collection holds at most one record per id
C8_Original ==
  \A i, j \in 1..Len(lista_imagenes) :
    lista_imagenes[i].id_imagen = lista_imagenes[j].id_imagen => i = j

\* C9 (as claimed): every record of the collection and every row of the table
\* has its split in Train, Test, Validation
C9_Original ==
  /\ \A i \in 1..Len(lista_imagenes) :
       lista_imagenes[i].conjunto_datos \in {"Train", "Test", "Validation"}
  /\ \A i \in 1..Len(csv) : csv[i].conjunto_datos \in {"Train", "Test", "Validation"}

\* C10 (as claimed): every persisted record has a non-empty id, path, patient
\* id and diagnosis
C10_Original ==
  \A i \in 1..Len(csv) :
    /\ csv[i].id_imagen # "" /\ csv[i].ruta_archivo # NoRuta
    /\ csv[i].id_paciente # "" /\ csv[i].diagnostico # ""

\* the last call left the collection, the table and the files as they were
SinCambios ==
  /\ lista_imagenes = last.pre.lista
  /\ csv = last.pre.csv
  /\ files = last.pre.files

\* C11 (as claimed): a registrar call whose source path is no file that exists
\* returns False and leaves the collection, the table and the files unchanged;
\* stated for the calls that met no I/O error
C11_Original ==
  (last.op = "registrar" /\ PathOf(last.origen) \notin last.pre.files
     /\ last.fault = "none") =>
    last.res = "False" /\ SinCambios

\* C12 (as claimed): a modificar call whose change-set names no file that
\* exists (no ruta_archivo at all, a folder, a path that names nothing) returns
\* False or None and leaves the collection, the table and the files unchanged;
\* stated for the calls that met no I/O error
C12_Original ==
  (last.op = "modificar" /\ OrigenMod \notin last.pre.files /\ last.fault = "none") =>
    last.res \in {"False", "None"} /\ SinCambios

\* C13 (as claimed): a modificar call with an id that no record has reports
\* failure (False or None) and leaves the collection, the table and the files
\* unchanged
C13_Original ==
  (last.op = "modificar" /\ Encontrada = 0) =>
    last.res \in {"False", "None"} /\ SinCambios

\* C14: an eliminar call with an id that no record has unlinks no file and
\* leaves the collection and the table as they were
C14_EliminarDesconocidoSinEfecto ==
  (last.op = "eliminar" /\ Encontrada = 0) =>
    last.res = "None" /\ SinCambios

\* C14 witness: such a call on a collection that holds a record and whose table
\* an earlier failed write had left behind, so that a rewrite would have shown
C14_Witness ==
  /\ last.op = "eliminar" /\ Encontrada = 0
  /\ last.pre.lista # <<>>
  /\ last.pre.csv # Filas(last.pre.lista)
  /\ SinCambios

\* C15 (as claimed): a modificar call that names an existing file and returns
\* True leaves every other record as it was, gives the matched record the value
\* of every field the change-set names (for ruta_archivo the destination path),
\* keeps every field it does not name, and sets nothing else on the record;
\* stated for the calls that met no I/O error
C15_Original ==
  (last.op = "modificar" /\ last.res = "True" /\ OrigenMod \in last.pre.files
     /\ last.fault = "none") =>
    LET antes == last.pre.lista[Encontrada]
        ahora == lista_imagenes[Encontrada]
    IN  /\ Len(lista_imagenes) = Len(last.pre.lista)
        /\ \A j \in 1..Len(lista_imagenes) :
             j # Encontrada => lista_imagenes[j] = last.pre.lista[j]
        /\ DOMAIN ahora = DOMAIN antes
        /\ \A a \in ImagenAttrs :
             ahora[a] = IF a \notin DOMAIN last.datos THEN antes[a]
                        ELSE IF a = "ruta_archivo" THEN DestinoMod
                        ELSE last.datos[a]

\* s is t without one of its elements, the others in the order they have in t
QuitaUno(s, t) ==
  /\ Len(s) + 1 = Len(t)
  /\ \E k \in 1..Len(t) :
       \A j \in 1..Len(s) : s[j] = IF j < k THEN t[j] ELSE t[j + 1]

Original == last.pre.lista[1]

\* the same id, path, patient, diagnosis and split, the same day, and each
\* optional pair absent in both or present in both with the same values
Equivalente(a, b) ==
  /\ a.id_imagen = b.id_imagen /\ a.ruta_archivo = b.ruta_archivo
  /\ a.id_paciente = b.id_paciente /\ a.diagnostico = b.diagnostico
  /\ a.conjunto_datos = b.conjunto_datos
  /\ IsDate(a.fecha_adquisicion) /\ IsDate(b.fecha_adquisicion)
  /\ a.fecha_adquisicion.y = b.fecha_adquisicion.y
  /\ a.fecha_adquisicion.m = b.fecha_adquisicion.m
  /\ a.fecha_adquisicion.d = b.fecha_adquisicion.d
  /\ a.coordenadas_fovea = b.coordenadas_fovea
  /\ a.dimensiones = b.dimensiones

\* C17 (as claimed): the row that a_diccionario makes of a record that
\* validar_metadata accepts loads, and loads as an equivalent record
C17_Original ==
  (last.op = "cargar" /\ Len(last.pre.lista) = 1 /\ validar_metadata(Original)) =>
    /\ last.res # "raised"
    /\ Len(lista_imagenes) = 1
    /\ Equivalente(lista_imagenes[1], Original)

\* C19: validar_metadata returns True exactly when id, path, patient and
\* diagnosis are non-empty, the date is a date value and the split is one of
\* Train, Test, Validation
C19_ValidarExacto ==
  last.op = "validar" =>
    (last.res = "True" <=>
       /\ Original.id_imagen # "" /\ Original.ruta_archivo # NoRuta
       /\ Original.id_paciente # "" /\ Original.diagnostico # ""
       /\ Original.fecha_adquisicion.tipo \in {"date", "datetime"}
       /\ Original.conjunto_datos \in {"Train", "Test", "Validation"})

\* C19 witness: a record refused for its split alone
C19_Witness ==
  /\ last.op = "validar" /\ last.res = "False"
  /\ Original.id_imagen # "" /\ Original.ruta_archivo # NoRuta
  /\ Original.id_paciente # "" /\ Original.diagnostico # ""
  /\ Original.fecha_adquisicion = Hoy
  /\ Original.conjunto_datos = "Bogus"

\* C18: a call of inicializar_entorno on the running manager leaves the
\* folders, the file of the table and its rows as they were, and the
\* collection with them
C18_InicializarIdempotente ==
  last.op = "inicializar" =>
    /\ dirs = last.pre.dirs
    /\ SinCambios

\* C18 witness: such a call when the table holds the row of a record
C18_Witness ==
  /\ last.op = "inicializar"
  /\ last.pre.csv # <<>> /\ csv = last.pre.csv
  /\ RUTA_METADATA_CSV \in files /\ dirs = last.pre.dirs

\* C20 (as claimed): a registrar or modificar call whose copy met an I/O error
\* ends there: no file is deleted, no record is added or changed, the table is
\* not rewritten
C20_Original ==
  (last.op \in {"registrar", "modificar"} /\ last.fault = "copy") => SinCambios

\* C21 (as claimed): a manager constructed after calls of registrar, modificar
\* and eliminar that all succeeded holds, record for record and in the same
\* order, the collection that the manager before it held
C21_Original ==
  (last.op = "reiniciar" /\ exitosas) =>
    /\ last.res # "raised"
    /\ Len(lista_imagenes) = Len(last.pre.lista)
    /\ \A i \in 1..Len(last.pre.lista) :
         Equivalente(lista_imagenes[i], last.pre.lista[i])

\* the last call was a modificar call whose ruta_archivo is an existing file
\* that is already at the destination <dataset>/<split>/<name>
YaEnDestino ==
  /\ last.op = "modificar"
  /\ OrigenMod \in last.pre.files
  /\ OrigenMod = DestinoMod

\* C22 (as claimed): such a call copies no file and deletes no file, the file
\* stays at that path and the path of the record is that path
C22_Original ==
  YaEnDestino =>
    /\ files = last.pre.files
    /\ Encontrada # 0 => lista_imagenes[Encontrada].ruta_archivo = DestinoMod

\* C22: such a call copies no file and leaves the file at that path, the path
\* of the record is that path after it, and the only file it may delete is the
\* file the record had before, when that is at another path of the dataset tree
C22_YaEnDestinoSinCopia ==
  YaEnDestino =>
    /\ files \subseteq last.pre.files
    /\ DestinoMod \in files
    /\ \A p \in last.pre.files \ files :
         /\ Encontrada # 0
         /\ p = last.pre.lista[Encontrada].ruta_archivo
         /\ InsideDataset(p) /\ p # DestinoMod
    /\ Encontrada # 0 => lista_imagenes[Encontrada].ruta_archivo = DestinoMod

\* C22 witness: an update of a record with its own file, in the folder of the
\* split the change-set names, that returned True
C22_Witness ==
  /\ YaEnDestino /\ Encontrada # 0 /\ last.res = "True"
  /\ "conjunto_datos" \in DOMAIN last.datos
  /\ last.pre.lista[Encontrada].ruta_archivo = DestinoMod
  /\ files = last.pre.files
  /\ lista_imagenes[Encontrada].ruta_archivo = DestinoMod

\* the last call was a registrar call of an existing file with an empty patient
\* id and a split that is a folder of the dataset, and met no I/O error
CopiaSinRegistro ==
  /\ last.op = "registrar" /\ last.fault = "none"
  /\ PathOf(last.origen) \in last.pre.files
  /\ last.datos.id_paciente = ""
  /\ Get(last.datos, "conjunto_datos", "Train") \in CARPETAS_DATASET

\* where that call copied the file to
DestinoReg == RutaDestino(Get(last.datos, "conjunto_datos", "Train"), PathOf(last.origen))

\* C23: such a call returns False, adds no record and no row, and leaves the
\* copy of the file at <dataset>/<split>/<source name>
C23_CopiaSinRollback ==
  CopiaSinRegistro =>
    /\ last.res = "False"
    /\ DestinoReg \in files
    /\ lista_imagenes = last.pre.lista
    /\ csv = last.pre.csv

\* C23 witness: the copy is a new file that no record and no row names
C23_Witness ==
  /\ CopiaSinRegistro /\ last.res = "False"
  /\ DestinoReg \notin last.pre.files /\ DestinoReg \in files
  /\ \A i \in 1..Len(lista_imagenes) : lista_imagenes[i].ruta_archivo # DestinoReg
  /\ \A i \in 1..Len(csv) : csv[i].ruta_archivo # DestinoReg

\* an optional pair is absent or has its two components
ParEntero(v) == v = None \/ Len(v) = 2

\* C24: in every row that a_diccionario writes Fovea_X is empty exactly when
\* Fovea_Y is and Size_X exactly when Size_Y is; every record that a load
\* builds has each optional pair absent or whole, and absent when one of the
\* two columns of the row is empty
C24_ParesAtomicos ==
  /\ (last.op = "persistir" /\ last.res # "raised") =>
       \A i \in 1..Len(csv) :
         /\ csv[i].Fovea_X = "" <=> csv[i].Fovea_Y = ""
         /\ csv[i].Size_X = "" <=> csv[i].Size_Y = ""
  /\ (last.op = "cargar" /\ last.res # "raised") =>
       \A i \in 1..Len(lista_imagenes) :
         /\ ParEntero(lista_imagenes[i].coordenadas_fovea)
         /\ ParEntero(lista_imagenes[i].dimensiones)
         /\ (csv[i].Fovea_X = "" \/ csv[i].Fovea_Y = "") =>
              lista_imagenes[i].coordenadas_fovea = None
         /\ (csv[i].Size_X = "" \/ csv[i].Size_Y = "") =>
              lista_imagenes[i].dimensiones = None

\* C24 witness: a row with Fovea_X filled and Fovea_Y empty was loaded, as a
\* record without the pair
C24_Witness ==
  /\ last.op = "cargar" /\ last.res # "raised"
  /\ Len(lista_imagenes) = 1
  /\ csv[1].Fovea_X # "" /\ csv[1].Fovea_Y = ""
  /\ lista_imagenes[1].coordenadas_fovea = None

\* C25 (as claimed): from an empty store, after calls that all succeeded and
\* met no I/O error, a file exists at the path of every record
C25_Original ==
  \A i \in 1..Len(lista_imagenes) : lista_imagenes[i].ruta_archivo \in files

\* C26 (as claimed): from an empty store, after registrar and modificar calls
\* that all succeeded, the path of every record is its file name in the folder
\* of its own split
C26_Original ==
  last.op \in {"init", "registrar", "modificar"} =>
    \A i \in 1..Len(lista_imagenes) :
      /\ lista_imagenes[i].ruta_archivo.root = "ds"
      /\ lista_imagenes[i].ruta_archivo.dir = lista_imagenes[i].conjunto_datos

====
